---- MODULE Spec2Model ----
(***************************************************************************)
(* lsdy: a DynamoDB query tool.  The model follows one invocation of run   *)
(* (src/main.go): key validation, table metadata, paginated retrieval      *)
(* with retry/backoff (query, ScanItems), schema projection, the row       *)
(* loop with its filters, and the delete phase.                            *)
(*                                                                         *)
(* Go strings are sequences of one-character strings, so that Split,       *)
(* Contains, Atoi, slicing and sort.Strings are computed, not assumed.     *)
(***************************************************************************)
EXTENDS Integers, Sequences, FiniteSets, TLC

\* ------------------------------------------------------------------ bounds
\* Most invocations of the remote operation for one page (the exponential
\* backoff stops on its own; the model cuts it here).
MaxAttempts == 2
\* Largest page the remote service hands out in one round trip.
MaxPageSize == 2
\* Largest --limit tried.
MaxLimit == 2

\* ------------------------------------------------------------- Go strings
\* The 256 byte values in byte order; a byte that is not printable ASCII is
\* written by its hexadecimal code ("x0A"), and so are the backslash ("x5C") and
\* the backquote ("x60").
\* A string is a sequence of these.
Alphabet ==
  << "x00", "x01", "x02", "x03", "x04", "x05", "x06", "x07", "x08", "x09", "x0A", "x0B",
     "x0C", "x0D", "x0E", "x0F", "x10", "x11", "x12", "x13", "x14", "x15", "x16", "x17",
     "x18", "x19", "x1A", "x1B", "x1C", "x1D", "x1E", "x1F", " ", "!", "\"", "#",
     "$", "%", "&", "'", "(", ")", "*", "+", ",", "-", ".", "/",
     "0", "1", "2", "3", "4", "5", "6", "7", "8", "9", ":", ";",
     "<", "=", ">", "?", "@", "A", "B", "C", "D", "E", "F", "G",
     "H", "I", "J", "K", "L", "M", "N", "O", "P", "Q", "R", "S",
     "T", "U", "V", "W", "X", "Y", "Z", "[", "x5C", "]", "^", "_",
     "x60", "a", "b", "c", "d", "e", "f", "g", "h", "i", "j", "k",
     "l", "m", "n", "o", "p", "q", "r", "s", "t", "u", "v", "w",
     "x", "y", "z", "{", "|", "}", "~", "x7F", "x80", "x81", "x82", "x83",
     "x84", "x85", "x86", "x87", "x88", "x89", "x8A", "x8B", "x8C", "x8D", "x8E", "x8F",
     "x90", "x91", "x92", "x93", "x94", "x95", "x96", "x97", "x98", "x99", "x9A", "x9B",
     "x9C", "x9D", "x9E", "x9F", "xA0", "xA1", "xA2", "xA3", "xA4", "xA5", "xA6", "xA7",
     "xA8", "xA9", "xAA", "xAB", "xAC", "xAD", "xAE", "xAF", "xB0", "xB1", "xB2", "xB3",
     "xB4", "xB5", "xB6", "xB7", "xB8", "xB9", "xBA", "xBB", "xBC", "xBD", "xBE", "xBF",
     "xC0", "xC1", "xC2", "xC3", "xC4", "xC5", "xC6", "xC7", "xC8", "xC9", "xCA", "xCB",
     "xCC", "xCD", "xCE", "xCF", "xD0", "xD1", "xD2", "xD3", "xD4", "xD5", "xD6", "xD7",
     "xD8", "xD9", "xDA", "xDB", "xDC", "xDD", "xDE", "xDF", "xE0", "xE1", "xE2", "xE3",
     "xE4", "xE5", "xE6", "xE7", "xE8", "xE9", "xEA", "xEB", "xEC", "xED", "xEE", "xEF",
     "xF0", "xF1", "xF2", "xF3", "xF4", "xF5", "xF6", "xF7", "xF8", "xF9", "xFA", "xFB",
     "xFC", "xFD", "xFE", "xFF" >>

\* Byte rank of a character: the order sort.Strings compares by.
Ord(c) == CHOOSE n \in 1..Len(Alphabet) : Alphabet[n] = c

\* a < b for Go strings (byte-wise lexicographic).
RECURSIVE StrLess(_, _)
StrLess(a, b) ==
  IF b = <<>> THEN FALSE
  ELSE IF a = <<>> THEN TRUE
  ELSE IF Head(a) = Head(b) THEN StrLess(Tail(a), Tail(b))
  ELSE Ord(Head(a)) < Ord(Head(b))

\* strings.HasPrefix / DynamoDB begins_with
HasPrefix(s, p) == Len(p) <= Len(s) /\ SubSeq(s, 1, Len(p)) = p

\* strings.Contains(s, sub)
Contains(s, sub) ==
  \E k \in 0..(Len(s) - Len(sub)) : SubSeq(s, k + 1, k + Len(sub)) = sub

\* index (0-based) of the first occurrence of the non-empty sep in s, -1 if none
IndexOf(s, sep) ==
  IF Contains(s, sep)
  THEN CHOOSE k \in 0..(Len(s) - Len(sep)) :
         /\ SubSeq(s, k + 1, k + Len(sep)) = sep
         /\ \A j \in 0..(k - 1) : SubSeq(s, j + 1, j + Len(sep)) # sep
  ELSE -1

\* strings.Split(s, sep): always at least one part for a non-empty sep; with
\* sep = "" the string is exploded into its characters (the cells split that
\* way here are ASCII, one byte per character).
RECURSIVE Split(_, _)
Split(s, sep) ==
  LET k == IndexOf(s, sep)
  IN IF sep = <<>> THEN [j \in 1..Len(s) |-> << s[j] >>]
     ELSE IF k < 0 THEN << s >>
     ELSE << SubSeq(s, 1, k) >> \o Split(SubSeq(s, k + Len(sep) + 1, Len(s)), sep)

\* strings.Join(parts, sep)
RECURSIVE Join(_, _)
Join(parts, sep) ==
  IF parts = <<>> THEN <<>>
  ELSE IF Len(parts) = 1 THEN parts[1]
  ELSE parts[1] \o sep \o Join(Tail(parts), sep)

Digits == << "0", "1", "2", "3", "4", "5", "6", "7", "8", "9" >>
IsDigit(c) == \E d \in 1..Len(Digits) : Digits[d] = c
DigitVal(c) == (CHOOSE d \in 1..Len(Digits) : Digits[d] = c) - 1

RECURSIVE DecVal(_, _)
DecVal(s, acc) ==
  IF s = <<>> THEN acc ELSE DecVal(Tail(s), 10 * acc + DigitVal(Head(s)))

\* idx, _ := strconv.Atoi(s): the value of an optionally signed decimal
\* number, or 0 when s is not one (the numbers here are far from overflow).
Atoi(s) ==
  LET neg  == s # <<>> /\ Head(s) = "-"
      body == IF s # <<>> /\ Head(s) \in { "-", "+" } THEN Tail(s) ELSE s
  IN IF body = <<>> \/ \E k \in 1..Len(body) : ~IsDigit(body[k]) THEN 0
     ELSE IF neg THEN 0 - DecVal(body, 0) ELSE DecVal(body, 0)

\* sort.Strings: insertion into an ascending sequence, then the whole sort.
RECURSIVE InsertSorted(_, _)
InsertSorted(x, s) ==
  IF s = <<>> THEN << x >>
  ELSE IF StrLess(x, Head(s)) THEN << x >> \o s
  ELSE << Head(s) >> \o InsertSorted(x, Tail(s))

RECURSIVE SortStrings(_)
SortStrings(s) ==
  IF s = <<>> THEN <<>> ELSE InsertSorted(Head(s), SortStrings(Tail(s)))

Range(s) == { s[k] : k \in 1..Len(s) }

RECURSIVE Reverse(_)
Reverse(s) == IF s = <<>> THEN <<>> ELSE Reverse(Tail(s)) \o << Head(s) >>

\* s[:n] for n <= len(s)
Take(s, n) == SubSeq(s, 1, n)

\* ------------------------------------------------------- the remote table
Colon == << ":" >>
AttrId == << "i", "d" >>
AttrSk == << "s", "k" >>
AttrV == << "v" >>

Item2(id, v) == (AttrId :> id) @@ (AttrV :> v)
Item3(id, skv, v) == (AttrId :> id) @@ (AttrSk :> skv) @@ (AttrV :> v)

\* A table with HASH key id and RANGE key sk, in storage order (ascending by
\* key).  Two partitions share the sort-key value X1; one item has no v.
RangeTable ==
  << Item3(<< "A" >>, << "X", "1" >>, << "f", "o", "o" >>),
     Item3(<< "A" >>, << "X", "2" >>, << "b", "a", "r" >>),
     (AttrId :> << "A" >>) @@ (AttrSk :> << "Y", "1" >>),
     Item3(<< "B" >>, << "X", "1" >>, << "f", "o", "b" >>) >>

\* A table with HASH key id only.  Two values hold base64 text: "Zm9v"
\* (of "foo") and, after a separator, "Zm8=" (of "fo").
HashTable ==
  << Item2(<< "A" >>, << "Z", "m", "9", "v" >>),
     Item2(<< "B" >>, << "b", "|", "Z", "m", "8", "=" >>),
     Item2(<< "X", "1" >>, << "\"", "a", "\"" >>) >>

\* ------------------------------------------------------------------ state
VARIABLES
  \* the flags of the invocation (package variables of main.go)
  legacy,      \* TRUE: the single-key run of main.go:579, FALSE: run of main.go:66
  pk,          \* --pk, a list of "attr:value" strings
  sk,          \* --sk, paired with pk by position
  incols,      \* --attr
  contains,    \* --contains, filter rules
  b64dec,      \* --decb64, base64 rules
  limit,       \* --limit
  describe,    \* --describe
  nosort,      \* --nosort
  del,         \* --delete
  csvf,        \* --csv, "" when not given
  maxlen,      \* --maxlen
  \* the remote service
  hasRange,    \* whether the table's key schema has a RANGE key
  pageSize,    \* how many records the service returns per round trip
  \* locals of run
  pc, pklbl, sklbl, i, items, m, sortedlbl, hdrs,
  r,           \* index into m of the next record of the row loop
  tableRows,   \* rows given to table.Append / addLine, in order
  cwRows,      \* rows given to cw.Write (header included), in order
  shown,       \* indices into m of the rows appended to the table
  todel,       \* the map key = sort-key value, val = primary-key value, as entries
  pending,     \* keys of todel the delete loop has yet to visit
  dellog,      \* the DeleteItem calls made, with their outcome and report
  result,      \* what run returned: "running" until it returns
  calls,       \* the retrieval calls made so far: arguments of GetItems / ScanItems
  \* locals of query / ScanItems
  fn, input, lim, lastKey, more, ret, res, err, rerr, attempts,
  reqlog,      \* round trips and backoff sleeps of the current retrieval call
  fetched      \* what the retrieval call returned: [items, err]

flags == << legacy, pk, sk, incols, contains, b64dec, limit, describe, nosort, del, csvf, maxlen >>
remote == << hasRange, pageSize >>
runvars == << pklbl, sklbl, i, items, m, sortedlbl, hdrs, r, tableRows, cwRows, shown,
              todel, pending, dellog, result, calls >>
pagervars == << fn, input, lim, lastKey, more, ret, res, err, rerr, attempts, reqlog,
                fetched >>
vars == << flags, remote, pc, runvars, pagervars >>

\* nil for a continuation token, an error, a response
NoKey == 0
Nil == "nil"
NoInput == [TableName |-> "", pkattr |-> <<>>, pkval |-> <<>>,
            hasSk |-> FALSE, skattr |-> <<>>, skval |-> <<>>,
            ExclusiveStartKey |-> NoKey]
NoPage == [Items |-> <<>>, LastEvaluatedKey |-> NoKey]
NoFetch == [items |-> <<>>, err |-> Nil]

\* The errors a round trip can end with: the throttling code, another service
\* error code, and an error that is not a service error at all.
Throttled == "ProvisionedThroughputExceededException"
ErrOutcomes == { Throttled, "ResourceNotFoundException", "RequestError" }
Outcomes == { "ok" } \cup ErrOutcomes

\* ------------------------------------------------------ the remote service
Table == IF hasRange THEN RangeTable ELSE HashTable

\* t.Table.KeySchema
KeySchema ==
  IF hasRange
  THEN << [KeyType |-> "HASH", AttributeName |-> AttrId],
          [KeyType |-> "RANGE", AttributeName |-> AttrSk] >>
  ELSE << [KeyType |-> "HASH", AttributeName |-> AttrId] >>

\* The service accepts a key condition only on the table's own key attributes.
ValidRequest(in) ==
  \/ in.pkattr = <<>>
  \/ /\ in.pkattr = AttrId
     /\ in.hasSk => (hasRange /\ in.skattr = AttrSk)

ItemMatches(in, it) ==
  /\ it[in.pkattr] = in.pkval
  /\ in.hasSk => HasPrefix(it[in.skattr], in.skval)

\* Every record the request selects, in the order the service returns them:
\* a scan in storage order, a query in descending order (ScanIndexForward false).
Selected(in) ==
  IF in.pkattr = <<>> THEN Table
  ELSE LET Test(it) == ItemMatches(in, it)
       IN Reverse(SelectSeq(Table, Test))

Min(a, b) == IF a < b THEN a ELSE b

\* One round trip: the records after in.ExclusiveStartKey, at most pageSize of
\* them, and a continuation token when more remain.
ServePage(in) ==
  LET all   == Selected(in)
      start == in.ExclusiveStartKey
      stop  == Min(start + pageSize, Len(all))
  IN [Items |-> SubSeq(all, start + 1, stop),
      LastEvaluatedKey |-> IF stop < Len(all) THEN stop ELSE NoKey]

\* ------------------------------------------------- query / ScanItems (pager)
\* GetItems: the QueryInput built from a --pk and a --sk string ("" for none).
GetItemsInput(table, pkv, skv) ==
  LET v1 == Split(pkv, Colon)
      v2 == Split(skv, Colon)
  IN IF skv # <<>>
     THEN [TableName |-> table, pkattr |-> v1[1], pkval |-> v1[2],
           hasSk |-> TRUE, skattr |-> v2[1], skval |-> v2[2],
           ExclusiveStartKey |-> NoKey]
     ELSE [TableName |-> table, pkattr |-> v1[1], pkval |-> v1[2],
           hasSk |-> FALSE, skattr |-> <<>>, skval |-> <<>>,
           ExclusiveStartKey |-> NoKey]

\* ScanItems: dynamodb.ScanInput{TableName: table}
ScanInput(table) == [NoInput EXCEPT !.TableName = table]

\* The result-count limit of the retrieval call, as the pager applies it: no
\* further page once the accumulator holds lim records ...
LimitReached(acc, l) == l > 0 /\ Len(acc) >= l

\* ... and the first lim records of the accumulator are what it returns.
LimitCut(acc, l) == IF l > 0 /\ Len(acc) > l THEN Take(acc, l) ELSE acc

\* An op that hands every error to backoff.Retry.
OpReturnAnyError(e) == e

\* What op returns to backoff.Retry: the error itself for the throttling code
\* of a service error (retry), nil for everything else.
OpReturn(e) == IF e = Throttled THEN e ELSE Nil

\* The entry to query / ScanItems: ret empty, lastKey nil, more true.
BeginFetch(f, in, l) ==
  /\ fn' = f
  /\ input' = in
  /\ lim' = l
  /\ lastKey' = NoKey
  /\ more' = TRUE
  /\ ret' = <<>>
  /\ res' = NoPage
  /\ err' = Nil
  /\ rerr' = Nil
  /\ attempts' = 0
  /\ reqlog' = <<>>
  /\ fetched' = NoFetch
  /\ pc' = "op"

\* The return of query / ScanItems: its locals are gone.
EndFetch ==
  /\ fn' = ""
  /\ input' = NoInput
  /\ lim' = 0
  /\ lastKey' = NoKey
  /\ more' = FALSE
  /\ ret' = <<>>
  /\ res' = NoPage
  /\ err' = Nil
  /\ rerr' = Nil
  /\ attempts' = 0
  /\ reqlog' = <<>>
  /\ fetched' = NoFetch

\* One invocation of op: res, err = svc.Query(input) / svc.Scan(&in); rerr = err.
Op ==
  /\ pc = "op"
  /\ \E outcome \in Outcomes :
       /\ outcome = "ok" => ValidRequest(input)
       /\ res' = IF outcome = "ok" THEN ServePage(input) ELSE NoPage
       /\ rerr' = IF outcome = "ok" THEN Nil ELSE outcome
       /\ err' = IF outcome = "ok" THEN Nil ELSE OpReturn(outcome)
       /\ attempts' = attempts + 1
       /\ reqlog' = Append(reqlog, [what |-> "call", start |-> input.ExclusiveStartKey,
                                    outcome |-> outcome, page |-> res'])
       /\ pc' = IF outcome # "ok" /\ OpReturn(outcome) # Nil THEN "backoff" ELSE "after"
  /\ UNCHANGED << flags, remote, runvars, fn, input, lim, lastKey, more, ret, fetched >>

\* backoff.Retry after op returned an error: NextBackOff gives a delay, the
\* caller sleeps and op runs again.
BackoffRetry ==
  /\ pc = "backoff"
  /\ attempts < MaxAttempts
  /\ reqlog' = Append(reqlog, [what |-> "sleep", start |-> input.ExclusiveStartKey,
                               outcome |-> Nil, page |-> NoPage])
  /\ pc' = "op"
  /\ UNCHANGED << flags, remote, runvars, fn, input, lim, lastKey, more, ret, res, err,
                  rerr, attempts, fetched >>

\* backoff.Retry after op returned an error: NextBackOff gives Stop and Retry
\* returns the error of the last invocation.
BackoffStop ==
  /\ pc = "backoff"
  /\ pc' = "after"
  /\ UNCHANGED << flags, remote, runvars, pagervars >>

\* A pager that keeps only the page it just received.
AccumulateLastPage(acc, page) == page

\* ret = append(ret, res.Items...)
Accumulate(acc, page) == acc \o page

\* The error query / ScanItems wraps and returns.
FailedAfter(f) == IF f = "query" THEN "query failed after" ELSE "ScanItems failed after"
Failed(f) == IF f = "query" THEN "query failed" ELSE "ScanItems failed"

\* After backoff.Retry returned: the two error returns, else append the page,
\* note the continuation token and loop or return.
AfterRetry ==
  /\ pc = "after"
  /\ IF err # Nil
     THEN /\ fetched' = [items |-> <<>>, err |-> FailedAfter(fn)]
          /\ pc' = "fetched"
          /\ UNCHANGED << ret, more, lastKey, input, attempts >>
     ELSE IF rerr # Nil
     THEN /\ fetched' = [items |-> <<>>, err |-> Failed(fn)]
          /\ pc' = "fetched"
          /\ UNCHANGED << ret, more, lastKey, input, attempts >>
     ELSE LET acc  == Accumulate(ret, res.Items)
              key  == IF res.LastEvaluatedKey # NoKey THEN res.LastEvaluatedKey ELSE lastKey
              cont == res.LastEvaluatedKey # NoKey /\ ~LimitReached(acc, lim)
          IN /\ ret' = acc
             /\ lastKey' = key
             /\ more' = cont
             /\ IF cont
                THEN /\ input' = [input EXCEPT !.ExclusiveStartKey = key]
                     /\ attempts' = 0
                     /\ pc' = "op"
                     /\ UNCHANGED fetched
                ELSE /\ fetched' = [items |-> LimitCut(acc, lim), err |-> Nil]
                     /\ pc' = "fetched"
                     /\ UNCHANGED << input, attempts >>
  /\ UNCHANGED << flags, remote, runvars, fn, lim, res, err, rerr, reqlog >>

\* ------------------------------------------------------------- run: set-up
TableName == "tbl"

\* The label the validation loop leaves behind: that of the last non-empty
\* entry ("" when there is none).
RECURSIVE LastLabel(_, _)
LastLabel(list, lbl) ==
  IF list = <<>> THEN lbl
  ELSE LastLabel(Tail(list), IF Head(list) # <<>> THEN Split(Head(list), Colon)[1] ELSE lbl)

\* Whether the validation loop rejects the list: a non-empty entry without ':'.
Malformed(list) ==
  \E k \in 1..Len(list) : list[k] # <<>> /\ ~Contains(list[k], Colon)

\* Validate pk and sk inputs.
RunValidate ==
  /\ pc = "validate"
  /\ ~legacy
  /\ IF Malformed(pk)
     THEN /\ result' = "invalid --pk format"
          /\ pc' = "done"
          /\ UNCHANGED << pklbl, sklbl >>
     ELSE IF Malformed(sk)
     THEN /\ result' = "invalid --sk format"
          /\ pc' = "done"
          /\ pklbl' = LastLabel(pk, <<>>)
          /\ UNCHANGED sklbl
     ELSE /\ pklbl' = LastLabel(pk, <<>>)
          /\ sklbl' = LastLabel(sk, <<>>)
          /\ pc' = "describe"
          /\ UNCHANGED result
  /\ UNCHANGED << flags, remote, pagervars, i, items, m, sortedlbl, hdrs, r, tableRows,
                  cwRows, shown, todel, pending, dellog, calls >>

\* The attribute name the KeySchema loop leaves in a label: that of the last
\* element of the given key type, else what the label held.
RECURSIVE KeyLabel(_, _, _)
KeyLabel(schema, type, lbl) ==
  IF schema = <<>> THEN lbl
  ELSE KeyLabel(Tail(schema), type,
                IF Head(schema).KeyType = type THEN Head(schema).AttributeName ELSE lbl)

\* Get table information: svc.DescribeTable, then the key labels.
RunDescribeTable ==
  /\ pc = "describe"
  /\ ~legacy
  /\ \E outcome \in { "ok", "ResourceNotFoundException" } :
       IF outcome # "ok"
       THEN /\ result' = outcome
            /\ pc' = "done"
            /\ UNCHANGED << pklbl, sklbl >>
       ELSE /\ pklbl' = KeyLabel(KeySchema, "HASH", pklbl)
            /\ sklbl' = KeyLabel(KeySchema, "RANGE", sklbl)
            /\ pc' = "retrieve"
            /\ UNCHANGED result
  /\ UNCHANGED << flags, remote, pagervars, i, items, m, sortedlbl, hdrs, r, tableRows,
                  cwRows, shown, todel, pending, dellog, calls >>

\* ---------------------------------------------------------- run: retrieval
\* The record kept of one retrieval call: its arguments, the request it
\* built, and (once it returned) its error and its records.
Call(f, pkv, skv, l, in) ==
  [fn |-> f, pk |-> pkv, sk |-> skv, lim |-> l, cond |-> in, err |-> "pending",
   got |-> <<>>]

\* The same record once the call returned.
Returned(cs, out) ==
  [cs EXCEPT ![Len(cs)].err = out.err, ![Len(cs)].got = out.items]

\* A loop that pairs every pk with the first sk.
SkForFirst(idx) == IF Len(sk) > 0 THEN sk[1] ELSE <<>>

\* The sort-key string paired with pk[i]: sk[i] when there is one, else "".
SkFor(idx) == IF Len(sk) > 0 /\ idx <= Len(sk) - 1 THEN sk[idx + 1] ELSE <<>>

\* A run with the two branches swapped: the limit is left out when it is set.
LimitArgSwapped == IF limit > 0 THEN 0 ELSE limit

\* The limit argument of GetItems / ScanItems: given only when limit > 0.
LimitArg == IF limit > 0 THEN limit ELSE 0

\* The loop over pk, or the scan when no pk is given: the next retrieval call.
RunRetrieve ==
  /\ pc = "retrieve"
  /\ ~legacy
  /\ IF Len(pk) > 0
     THEN IF i < Len(pk)
          THEN /\ BeginFetch("query", GetItemsInput(TableName, pk[i + 1], SkFor(i)), LimitArg)
               /\ calls' = Append(calls, Call("GetItems", pk[i + 1], SkFor(i), LimitArg,
                                               GetItemsInput(TableName, pk[i + 1], SkFor(i))))
          ELSE /\ pc' = "project"
               /\ UNCHANGED << pagervars, calls >>
     ELSE /\ BeginFetch("ScanItems", ScanInput(TableName), LimitArg)
          /\ calls' = Append(calls, Call("ScanItems", <<>>, <<>>, LimitArg,
                                          ScanInput(TableName)))
  /\ UNCHANGED << flags, remote, pklbl, sklbl, i, items, m, sortedlbl, hdrs, r, tableRows,
                  cwRows, shown, todel, pending, dellog, result >>

\* The retrieval call returned: return its error, else accumulate results to items.
RunCollect ==
  /\ pc = "fetched"
  /\ ~legacy
  /\ IF fetched.err # Nil
     THEN /\ result' = fetched.err
          /\ pc' = "done"
          /\ UNCHANGED << items, i >>
     ELSE /\ items' = items \o fetched.items
          /\ i' = i + 1
          /\ pc' = IF Len(pk) > 0 THEN "retrieve" ELSE "project"
          /\ UNCHANGED result
  /\ calls' = Returned(calls, fetched)
  /\ EndFetch
  /\ UNCHANGED << flags, remote, pklbl, sklbl, m, sortedlbl, hdrs, r, tableRows,
                  cwRows, shown, todel, pending, dellog >>

\* --------------------------------------------------------- run: projection
\* The union of the attribute names of all records.
Labels(recs) == UNION { DOMAIN recs[k] : k \in 1..Len(recs) }

\* Every order in which a range over the set S may visit it.
Orders(S) ==
  { o \in [1..Cardinality(S) -> S] : \A a, b \in 1..Cardinality(S) : o[a] = o[b] => a = b }

\* A projection without the sort.
SchemaUnsorted(cols, order, unsorted) == IF Len(cols) > 0 THEN cols ELSE order

\* The column schema: incols when given, else the union of the attribute
\* names in map order; sorted unless nosort.
Schema(cols, order, unsorted) ==
  LET sortedlbl0 == IF Len(cols) > 0 THEN cols ELSE order
  IN IF ~unsorted THEN SortStrings(sortedlbl0) ELSE sortedlbl0

\* Unmarshal the items, derive the columns, write the headers; with
\* --describe the attributes are listed and run returns.
RunProject ==
  /\ pc = "project"
  /\ ~legacy
  /\ m' = items
  /\ \E order \in Orders(IF Len(incols) > 0 THEN {} ELSE Labels(items)) :
       sortedlbl' = Schema(incols, order, nosort)
  /\ IF describe
     THEN /\ result' = Nil
          /\ pc' = "done"
          /\ UNCHANGED << hdrs, cwRows >>
     ELSE /\ hdrs' = sortedlbl'
          /\ cwRows' = IF csvf # "" THEN << sortedlbl' >> ELSE cwRows
          /\ pc' = "rows"
          /\ UNCHANGED result
  /\ r' = 0
  /\ UNCHANGED << flags, remote, pagervars, pklbl, sklbl, i, items, tableRows, shown,
                  todel, pending, dellog, calls >>

\* ---------------------------------------------------------------- base64
\* The standard encoding alphabet: the character at position n stands for n - 1.
B64Chars ==
  << "A", "B", "C", "D", "E", "F", "G", "H", "I", "J", "K", "L", "M", "N", "O", "P",
     "Q", "R", "S", "T", "U", "V", "W", "X", "Y", "Z", "a", "b", "c", "d", "e", "f",
     "g", "h", "i", "j", "k", "l", "m", "n", "o", "p", "q", "r", "s", "t", "u", "v",
     "w", "x", "y", "z", "0", "1", "2", "3", "4", "5", "6", "7", "8", "9", "+", "/" >>

IsB64(c) == \E n \in 1..Len(B64Chars) : B64Chars[n] = c
B64Val(c) == (CHOOSE n \in 1..Len(B64Chars) : B64Chars[n] = c) - 1
Pad == "="

\* The character of a byte value: string(data), byte by byte.
Chr(n) == Alphabet[n + 1]

\* Whether four characters are a quantum the decoder accepts; padding only
\* in the last one, as "xx==" or "xxx=".
QuantumOk(q, last) ==
  /\ IsB64(q[1])
  /\ IsB64(q[2])
  /\ \/ IsB64(q[3]) /\ IsB64(q[4])
     \/ last /\ IsB64(q[3]) /\ q[4] = Pad
     \/ last /\ q[3] = Pad /\ q[4] = Pad

\* The bytes of one accepted quantum: three, or two or one before padding.
QuantumBytes(q) ==
  LET v == 262144 * B64Val(q[1]) + 4096 * B64Val(q[2])
           + (IF q[3] = Pad THEN 0 ELSE 64 * B64Val(q[3]))
           + (IF q[4] = Pad THEN 0 ELSE B64Val(q[4]))
      b == << Chr(v \div 65536), Chr((v \div 256) % 256), Chr(v % 256) >>
  IN IF q[3] = Pad THEN Take(b, 1) ELSE IF q[4] = Pad THEN Take(b, 2) ELSE b

RECURSIVE DecodeQuanta(_)
DecodeQuanta(t) ==
  IF t = <<>> THEN <<>> ELSE QuantumBytes(Take(t, 4)) \o DecodeQuanta(SubSeq(t, 5, Len(t)))

\* base64.StdEncoding.DecodeString(s): [data, err].  Line breaks are skipped,
\* the rest must be whole quanta.
DecodeString(s) ==
  LET t == SelectSeq(s, LAMBDA c : c \notin { "x0A", "x0D" })
      n == Len(t) \div 4
  IN IF /\ Len(t) % 4 = 0
        /\ \A k \in 1..n : QuantumOk(SubSeq(t, 4 * k - 3, 4 * k), k = n)
     THEN [data |-> DecodeQuanta(t), err |-> Nil]
     ELSE [data |-> <<>>, err |-> "CorruptInputError"]

\* -------------------------------------------------------- run: the row loop
Dash == << "-" >>
NotRegex == << "^", "r", "e", "g", "e", "x" >>
Regex == << "r", "e", "g", "e", "x" >>

\* regexp.MustCompile: the patterns in play are literals, '.' and an opening
\* parenthesis that is never closed (which does not compile).
RegexCompiles(pat) == \A k \in 1..Len(pat) : pat[k] # "("

\* re.MatchString(row): the pattern matches somewhere in row.
RegexMatch(pat, row) ==
  \E k \in 0..(Len(row) - Len(pat)) :
     \A j \in 1..Len(pat) : pat[j] = "." \/ pat[j] = row[k + j]

\* One filter rule on the cell of column ci.  st is [include, panic].
ApplyFilter(st, fltr, ci, row) ==
  LET cc == Split(fltr, Colon)
  IN IF st.panic THEN st
     ELSE IF Len(cc) = 2
     THEN IF Atoi(cc[1]) # ci THEN st
          ELSE IF cc[2] = <<>> THEN [st EXCEPT !.panic = TRUE]
          ELSE IF Head(cc[2]) = "^"
          THEN IF Contains(row, Tail(cc[2])) THEN [st EXCEPT !.include = FALSE] ELSE st
          ELSE [st EXCEPT !.include = Contains(row, cc[2])]
     ELSE IF Len(cc) = 3
     THEN IF Atoi(cc[1]) # ci THEN st
          ELSE IF ~RegexCompiles(cc[3]) THEN [st EXCEPT !.panic = TRUE]
          ELSE IF cc[2] = NotRegex THEN [st EXCEPT !.include = ~RegexMatch(cc[3], row)]
          ELSE IF cc[2] = Regex THEN [st EXCEPT !.include = RegexMatch(cc[3], row)]
          ELSE st
     ELSE st

\* for _, fltr := range contains
RECURSIVE ApplyFilters(_, _, _, _)
ApplyFilters(st, rules, ci, row) ==
  IF rules = <<>> THEN st
  ELSE ApplyFilters(ApplyFilter(st, Head(rules), ci, row), Tail(rules), ci, row)

\* if len(row) > maxlen { row = row[:maxlen] }
Truncate(row, n) == IF Len(row) > n THEN Take(row, n) ELSE row

\* strings.Replace(row, "\"", "'", -1)
Unquote(row) == [k \in 1..Len(row) |-> IF row[k] = "\"" THEN "'" ELSE row[k]]

\* One base64 rule on the cell of column ci.  st is [row, panic]: a negative
\* split index that passes "sidx < len(sr)" indexes sr out of range.
ApplyB64(st, decv, ci) ==
  LET sp == Split(decv, Colon)
  IN IF st.panic THEN st
     ELSE IF Len(sp) = 1
     THEN IF Atoi(sp[1]) # ci THEN st
          ELSE LET d == DecodeString(st.row)
               IN IF d.err = Nil THEN [st EXCEPT !.row = d.data] ELSE st
     ELSE IF Len(sp) = 3
     THEN LET sidx == Atoi(sp[3])
              sr   == Split(st.row, sp[2])
          IN IF Atoi(sp[1]) # ci THEN st
             ELSE IF ~(Len(sr) > 1 /\ sidx < Len(sr)) THEN st
             ELSE IF sidx < 0 THEN [st EXCEPT !.panic = TRUE]
             ELSE LET d == DecodeString(sr[sidx + 1])
                  IN IF d.err = Nil
                     THEN [st EXCEPT !.row = Join([sr EXCEPT ![sidx + 1] = d.data], sp[2])]
                     ELSE st
     ELSE st

\* for _, decv := range b64dec
RECURSIVE ApplyB64s(_, _, _)
ApplyB64s(st, rules, ci) ==
  IF rules = <<>> THEN st ELSE ApplyB64s(ApplyB64(st, Head(rules), ci), Tail(rules), ci)

\* for i, k := range sortedlbl, from column ci on.
\* st is [rows, qrows, include, panic].
RECURSIVE RowCells(_, _, _, _)
RowCells(maps, cols, ci, st) ==
  IF ci >= Len(cols) \/ st.panic THEN st
  ELSE LET k == cols[ci + 1]
       IN IF k \notin DOMAIN maps
          THEN RowCells(maps, cols, ci + 1,
                        [st EXCEPT !.rows = Append(@, Dash), !.qrows = Append(@, Dash)])
          ELSE LET b   == ApplyB64s([row |-> maps[k], panic |-> FALSE], b64dec, ci)
                   row == b.row
                   f   == ApplyFilters([include |-> st.include, panic |-> b.panic],
                                       contains, ci, row)
               IN RowCells(maps, cols, ci + 1,
                           [rows    |-> Append(st.rows, row),
                            qrows   |-> Append(st.qrows, Unquote(Truncate(row, maxlen))),
                            include |-> f.include,
                            panic   |-> f.panic])

\* The cells of one record and whether the filters include it.
RenderRow(maps) ==
  RowCells(maps, sortedlbl, 0,
           [rows |-> <<>>, qrows |-> <<>>, include |-> TRUE, panic |-> FALSE])

\* fmt.Sprintf("%v", maps[k]) for a key that may be absent
Sprint(maps, k) == IF k \in DOMAIN maps THEN maps[k] ELSE << "<nil>" >>

\* A row loop without the "if !include" test.
NeverSkipped(out) == FALSE

\* if !include { continue }
Skipped(out) == ~out.include

\* A todel that is a slice of pairs: every entry is appended.
MapAppend(td, k, v) == Append(td, [key |-> k, val |-> v])

\* todel[k] = v on the map todel, kept as its entries in insertion order.
MapPut(td, k, v) ==
  IF \E e \in 1..Len(td) : td[e].key = k
  THEN [e \in 1..Len(td) |-> IF td[e].key = k THEN [key |-> k, val |-> v] ELSE td[e]]
  ELSE Append(td, [key |-> k, val |-> v])

\* One round of "for _, maps := range m".
RunRow ==
  /\ pc = "rows"
  /\ ~legacy
  /\ r < Len(m)
  /\ LET maps == m[r + 1]
         out  == RenderRow(maps)
     IN IF out.panic
        THEN /\ result' = "panic"
             /\ pc' = "done"
             /\ UNCHANGED << r, tableRows, cwRows, shown, todel >>
        ELSE /\ r' = r + 1
             /\ UNCHANGED << result, pc >>
             /\ IF Skipped(out)
                THEN UNCHANGED << tableRows, cwRows, shown, todel >>
                ELSE /\ tableRows' = Append(tableRows, out.rows)
                     /\ shown' = Append(shown, r)
                     /\ cwRows' = IF csvf # "" THEN Append(cwRows, out.qrows) ELSE cwRows
                     /\ todel' = IF del /\ sklbl \in DOMAIN maps
                                 THEN MapPut(todel, maps[sklbl], Sprint(maps, pklbl))
                                 ELSE todel
  /\ UNCHANGED << flags, remote, pagervars, pklbl, sklbl, i, items, m, sortedlbl, hdrs,
                  pending, dellog, calls >>

\* Final table render; then the delete loop, if any.
RunRender ==
  /\ pc = "rows"
  /\ ~legacy
  /\ r >= Len(m)
  /\ pending' = IF del THEN 1..Len(todel) ELSE {}
  /\ pc' = "delete"
  /\ UNCHANGED << flags, remote, pagervars, pklbl, sklbl, i, items, m, sortedlbl, hdrs, r,
                  tableRows, cwRows, shown, todel, dellog, result, calls >>

\* ------------------------------------------------------ run: the delete phase
\* A delete loop that stops at the first failure.
StopOnError(p, e, derr) == IF derr # Nil THEN {} ELSE p \ {e}

\* The entries the range over todel has yet to visit after visiting e,
\* whatever DeleteItem returned.
StillToVisit(p, e, derr) == p \ {e}

\* What DeleteItem can return: the service rejects a key whose attributes
\* are not those of the table's key schema.
DeleteOutcomes ==
  IF << pklbl, sklbl >> = << KeyLabel(KeySchema, "HASH", <<>>), KeyLabel(KeySchema, "RANGE", <<>>) >>
  THEN { "ok", "ConditionalCheckFailedException" }
  ELSE { "ValidationException" }

\* One round of "for k, v := range todel": DeleteItem, then the report.
RunDelete ==
  /\ pc = "delete"
  /\ \E e \in pending : \E outcome \in DeleteOutcomes :
       LET k == todel[e].key
           v == todel[e].val
           derr == IF outcome = "ok" THEN Nil ELSE outcome
       IN /\ dellog' = Append(dellog,
                              [pk |-> pklbl \o Colon \o v,
                               sk |-> sklbl \o Colon \o k,
                               err |-> derr,
                               log |-> IF derr # Nil
                                       THEN << "delete failed", v, k >>
                                       ELSE << "deleted", v, k >>])
          /\ pending' = StillToVisit(pending, e, derr)
  /\ UNCHANGED << flags, remote, pagervars, pc, pklbl, sklbl, i, items, m, sortedlbl, hdrs,
                  r, tableRows, cwRows, shown, todel, result, calls >>

\* return nil
RunReturn ==
  /\ pc = "delete"
  /\ pending = {}
  /\ result' = Nil
  /\ pc' = "done"
  /\ UNCHANGED << flags, remote, pagervars, pklbl, sklbl, i, items, m, sortedlbl, hdrs, r,
                  tableRows, cwRows, shown, todel, pending, dellog, calls >>

\* ------------------------------------------- the single-key run (main.go:579)
\* There pk and sk are single strings: the lists hold at most one entry, and
\* the empty list stands for "".
OldStr(list) == IF Len(list) > 0 THEN list[1] ELSE <<>>

OldRunValidate ==
  /\ pc = "validate"
  /\ legacy
  /\ IF OldStr(pk) # <<>> /\ ~Contains(OldStr(pk), Colon)
     THEN /\ result' = "invalid --pk format"
          /\ pc' = "done"
     ELSE IF OldStr(sk) # <<>> /\ ~Contains(OldStr(sk), Colon)
     THEN /\ result' = "invalid --sk format"
          /\ pc' = "done"
     ELSE /\ pc' = "describe"
          /\ UNCHANGED result
  /\ UNCHANGED << flags, remote, pagervars, pklbl, sklbl, i, items, m, sortedlbl, hdrs, r,
                  tableRows, cwRows, shown, todel, pending, dellog, calls >>

\* if describe { t, err := svc.DescribeTable(...) }
OldRunDescribeTable ==
  /\ pc = "describe"
  /\ legacy
  /\ \E outcome \in { "ok", "ResourceNotFoundException" } :
       IF describe /\ outcome # "ok"
       THEN /\ result' = outcome
            /\ pc' = "done"
       ELSE /\ pc' = "retrieve"
            /\ UNCHANGED result
  /\ UNCHANGED << flags, remote, pagervars, pklbl, sklbl, i, items, m, sortedlbl, hdrs, r,
                  tableRows, cwRows, shown, todel, pending, dellog, calls >>

\* items, err = GetItems(svc, args[0], pk, sk) or ScanItems(svc, args[0])
OldRunRetrieve ==
  /\ pc = "retrieve"
  /\ legacy
  /\ IF OldStr(pk) # <<>>
     THEN /\ BeginFetch("query", GetItemsInput(TableName, OldStr(pk), OldStr(sk)), 0)
          /\ calls' = Append(calls, Call("GetItems", OldStr(pk), OldStr(sk), 0,
                                          GetItemsInput(TableName, OldStr(pk), OldStr(sk))))
     ELSE /\ BeginFetch("ScanItems", ScanInput(TableName), 0)
          /\ calls' = Append(calls, Call("ScanItems", <<>>, <<>>, 0, ScanInput(TableName)))
  /\ UNCHANGED << flags, remote, pklbl, sklbl, i, items, m, sortedlbl, hdrs, r, tableRows,
                  cwRows, shown, todel, pending, dellog, result >>

\* The retrieval call returned; err is then assigned by UnmarshalListOfMaps
\* before anything reads it.
OldRunCollect ==
  /\ pc = "fetched"
  /\ legacy
  /\ items' = fetched.items
  /\ pc' = "project"
  /\ calls' = Returned(calls, fetched)
  /\ EndFetch
  /\ UNCHANGED << flags, remote, pklbl, sklbl, i, m, sortedlbl, hdrs, r, tableRows,
                  cwRows, shown, todel, pending, dellog, result >>

\* strings.TrimSuffix(strings.TrimPrefix(val, " "), " ")
TrimPrefix(s, c) == IF s # <<>> /\ Head(s) = c THEN Tail(s) ELSE s
TrimSuffix(s, c) == IF s # <<>> /\ s[Len(s)] = c THEN Take(s, Len(s) - 1) ELSE s

\* addLine: one output line, as the cells it joins with tabs.
AddLine(v) ==
  [k \in 1..Len(v) |->
     LET val == TrimSuffix(TrimPrefix(v[k], " "), " ")
     IN Truncate(IF val = <<>> THEN Dash ELSE val, maxlen)]

\* The columns (always sorted), the header line; with --describe the
\* attributes are listed and run returns.
OldRunProject ==
  /\ pc = "project"
  /\ legacy
  /\ m' = items
  /\ \E order \in Orders(IF Len(incols) > 0 THEN {} ELSE Labels(items)) :
       sortedlbl' = Schema(incols, order, FALSE)
  /\ IF describe
     THEN /\ result' = Nil
          /\ pc' = "done"
          /\ UNCHANGED << hdrs, tableRows >>
     ELSE /\ hdrs' = sortedlbl'
          /\ tableRows' = << AddLine(sortedlbl') >>
          /\ pc' = "rows"
          /\ UNCHANGED result
  /\ r' = 0
  /\ UNCHANGED << flags, remote, pagervars, pklbl, sklbl, i, items, cwRows, shown,
                  todel, pending, dellog, calls >>

\* The cells of one record: the attribute, or "-" when the record lacks it.
OldCells(maps, cols) ==
  [k \in 1..Len(cols) |-> IF cols[k] \in DOMAIN maps THEN maps[cols[k]] ELSE Dash]

OldRunRow ==
  /\ pc = "rows"
  /\ legacy
  /\ r < Len(m)
  /\ tableRows' = Append(tableRows, AddLine(OldCells(m[r + 1], sortedlbl)))
  /\ shown' = Append(shown, r)
  /\ r' = r + 1
  /\ UNCHANGED << flags, remote, pagervars, pc, pklbl, sklbl, i, items, m, sortedlbl, hdrs,
                  cwRows, todel, pending, dellog, result, calls >>

OldRunReturn ==
  /\ pc = "rows"
  /\ legacy
  /\ r >= Len(m)
  /\ result' = Nil
  /\ pc' = "done"
  /\ UNCHANGED << flags, remote, pagervars, pklbl, sklbl, i, items, m, sortedlbl, hdrs, r,
                  tableRows, cwRows, shown, todel, pending, dellog, calls >>

\* ------------------------------------------------------------ the inputs
PkA == << "i", "d", ":", "A" >>
PkB == << "i", "d", ":", "B" >>
PkNoColon == << "i", "d", "A" >>
SkX == << "s", "k", ":", "X" >>
SkY == << "s", "k", ":", "Y" >>
SkNoColon == << "s", "k", "X" >>
SkV == << "v", ":", "Z" >>

PkLists ==
  { <<>>, << PkA >>, << PkB >>, << PkA, PkB >>, << PkB, PkA >>, << PkA, PkB, PkA >>,
    << PkNoColon >> }
SkLists == { <<>>, << SkX >>, << SkY >>, << SkX, SkY >>, << SkNoColon >> }

\* --maxlen of the table writer (tablewriter.MAX_ROW_WIDTH) and of main.go:579
DefaultMaxLen == 30
OldMaxLen == 20

\* The state when run is entered.
InitLocals ==
  /\ pc = "validate"
  /\ pklbl = <<>>
  /\ sklbl = <<>>
  /\ i = 0
  /\ items = <<>>
  /\ m = <<>>
  /\ sortedlbl = <<>>
  /\ hdrs = <<>>
  /\ r = 0
  /\ tableRows = <<>>
  /\ cwRows = <<>>
  /\ shown = <<>>
  /\ todel = <<>>
  /\ pending = {}
  /\ dellog = <<>>
  /\ result = "running"
  /\ calls = <<>>
  /\ fn = ""
  /\ input = NoInput
  /\ lim = 0
  /\ lastKey = NoKey
  /\ more = FALSE
  /\ ret = <<>>
  /\ res = NoPage
  /\ err = Nil
  /\ rerr = Nil
  /\ attempts = 0
  /\ reqlog = <<>>
  /\ fetched = NoFetch

\* What the single-key run has no flag for.
OldFlags ==
  /\ Len(pk) <= 1
  /\ Len(sk) <= 1
  /\ contains = <<>>
  /\ b64dec = <<>>
  /\ limit = 0
  /\ ~nosort
  /\ ~del
  /\ csvf = ""
  /\ maxlen = OldMaxLen

\* Invocations that differ in what they retrieve: keys, limit, paging.
Init ==
  /\ InitLocals
  /\ legacy \in BOOLEAN
  /\ pk \in PkLists
  /\ sk \in SkLists
  /\ incols = <<>>
  /\ contains = <<>>
  /\ b64dec = <<>>
  /\ limit \in 0..MaxLimit
  /\ describe = FALSE
  /\ nosort = FALSE
  /\ del \in BOOLEAN
  /\ csvf = ""
  /\ maxlen \in { OldMaxLen, DefaultMaxLen }
  /\ hasRange \in BOOLEAN
  /\ pageSize \in 1..MaxPageSize
  /\ IF legacy THEN OldFlags ELSE maxlen = DefaultMaxLen

\* --contains rules: "0:B", "0:A", "1:X", "0:^A", "2:regex:fo.", "2:^regex:o",
\* and two the row loop cannot evaluate: "0:" and "2:regex:(".
HasB == << "0", ":", "B" >>
HasA == << "0", ":", "A" >>
SkHasX == << "1", ":", "X" >>
NotA == << "0", ":", "^", "A" >>
VLikeFo == << "2", ":", "r", "e", "g", "e", "x", ":", "f", "o", "." >>
VNotLikeO == << "2", ":", "^", "r", "e", "g", "e", "x", ":", "o" >>
NoPattern == << "0", ":" >>
BadRegex == << "2", ":", "r", "e", "g", "e", "x", ":", "(" >>

FilterLists ==
  { <<>>, << HasB >>, << NotA >>, << HasB, SkHasX >>, << SkHasX, HasB >>, << HasB, HasA >>,
    << NotA, VLikeFo >>, << VLikeFo >>, << VNotLikeO >>, << NoPattern >>, << BadRegex >> }

\* --attr lists: none, out of order, in order.
ColLists == { <<>>, << AttrV, AttrId >>, << AttrId, AttrSk, AttrV >> }

\* A --maxlen shorter than some cells.
ShortMaxLen == 2

\* Invocations that differ in what they do with the records: columns,
\* filters, export, deletion.
InitRows ==
  /\ InitLocals
  /\ legacy \in BOOLEAN
  /\ pk \in { <<>>, << PkA, PkB >> }
  /\ sk = <<>>
  /\ incols \in ColLists
  /\ contains \in FilterLists
  /\ b64dec = <<>>
  /\ limit = 0
  /\ describe \in BOOLEAN
  /\ nosort \in BOOLEAN
  /\ del \in BOOLEAN
  /\ csvf \in { "", "out.csv" }
  /\ maxlen \in { ShortMaxLen, OldMaxLen, DefaultMaxLen }
  /\ hasRange \in BOOLEAN
  /\ pageSize = MaxPageSize
  /\ IF legacy THEN OldFlags ELSE maxlen # OldMaxLen
  /\ describe => (contains = <<>> /\ ~del /\ csvf = "")

\* --contains rules on column 0: "0:foo", "0:^foo", and with an index that is
\* negative ("-1:foo") or not a number ("x:foo").
HasFoo == << "0", ":", "f", "o", "o" >>
NotFoo == << "0", ":", "^", "f", "o", "o" >>
NegIndex == << "-", "1", ":", "f", "o", "o" >>
NonNumIndex == << "x", ":", "f", "o", "o" >>

CellFilterLists ==
  { <<>>, << HasFoo >>, << NotFoo >>, << NegIndex >>, << NonNumIndex >>, << NoPattern >>,
    << BadRegex >> }

\* --decb64 rules: "0", "1", "x", "1:|:1", "1:|:-1".
B64Col0 == << "0" >>
B64Col1 == << "1" >>
B64NonNum == << "x" >>
B64Seg == << "1", ":", "|", ":", "1" >>
B64SegNeg == << "1", ":", "|", ":", "-", "1" >>

B64Lists ==
  { <<>>, << B64Col0 >>, << B64Col1 >>, << B64NonNum >>, << B64Seg >>, << B64SegNeg >> }

\* Invocations that differ in what they do with the cells: base64 rules,
\* filters on column 0, truncation, deletion; with or without a --sk that
\* names an attribute which is not a key.
InitCells ==
  /\ InitLocals
  /\ legacy \in BOOLEAN
  /\ pk \in { <<>>, << PkA, PkB >> }
  /\ sk \in { <<>>, << SkV >> }
  /\ incols \in { <<>>, << AttrV, AttrId >> }
  /\ contains \in CellFilterLists
  /\ b64dec \in B64Lists
  /\ limit = 0
  /\ describe = FALSE
  /\ nosort \in BOOLEAN
  /\ del \in BOOLEAN
  /\ csvf \in { "", "out.csv" }
  /\ maxlen \in { ShortMaxLen, OldMaxLen, DefaultMaxLen }
  /\ hasRange \in BOOLEAN
  /\ pageSize = MaxPageSize
  /\ IF legacy THEN OldFlags ELSE maxlen # OldMaxLen

Next ==
  \/ RunValidate
  \/ RunDescribeTable
  \/ RunRetrieve
  \/ Op
  \/ BackoffRetry
  \/ BackoffStop
  \/ AfterRetry
  \/ RunCollect
  \/ RunProject
  \/ RunRow
  \/ RunRender
  \/ RunDelete
  \/ RunReturn
  \/ OldRunValidate
  \/ OldRunDescribeTable
  \/ OldRunRetrieve
  \/ OldRunCollect
  \/ OldRunProject
  \/ OldRunRow
  \/ OldRunReturn

Spec == Init /\ [][Next]_vars

SpecRows == InitRows /\ [][Next]_vars

SpecCells == InitCells /\ [][Next]_vars

\* ================================================================ properties
\* The round trips of a retrieval call that succeeded, in order.
IsOkCall(e) == e.what = "call" /\ e.outcome = "ok"
OkCalls(log) == SelectSeq(log, IsOkCall)

\* The records of the given round trips, page after page.
RECURSIVE ConcatPages(_)
ConcatPages(log) ==
  IF log = <<>> THEN <<>> ELSE Head(log).page.Items \o ConcatPages(Tail(log))

\* The continuation token of the last page received before entry k of the log.
RECURSIVE PrevToken(_, _)
PrevToken(log, k) ==
  IF k <= 1 THEN NoKey
  ELSE IF IsOkCall(log[k - 1]) THEN log[k - 1].page.LastEvaluatedKey
  ELSE PrevToken(log, k - 1)

\* C1: a retrieval call without a limit that returns without error has
\* received every page of the result (all but the last carried a continuation
\* token) and returns exactly the concatenation of the pages in page order;
\* every request carries the continuation token of the page received just
\* before it (none for the first).
C1_FetchAllConcatenatesPages ==
  /\ \A k \in 1..Len(reqlog) :
       reqlog[k].what = "call" => reqlog[k].start = PrevToken(reqlog, k)
  /\ (pc = "fetched" /\ fetched.err = Nil /\ lim = 0) =>
       LET ok == OkCalls(reqlog)
       IN /\ Len(ok) >= 1
          /\ ok[Len(ok)].page.LastEvaluatedKey = NoKey
          /\ \A k \in 1..(Len(ok) - 1) : ok[k].page.LastEvaluatedKey # NoKey
          /\ fetched.items = ConcatPages(ok)
          /\ fetched.items = Selected(input)

\* C1 witness: a retrieval without limit returned after three or more pages,
\* one of them received only on a retry.
C1_Witness ==
  /\ pc = "fetched"
  /\ fetched.err = Nil
  /\ lim = 0
  /\ Len(OkCalls(reqlog)) >= 3
  /\ Len(fetched.items) >= 3
  /\ \E k \in 1..Len(reqlog) : reqlog[k].what = "sleep"

\* C2: in a retrieval call, a round trip that fails with anything but the
\* throttling code is never followed by another invocation or a sleep: it is
\* the only invocation for its page unless throttled ones came before it, and
\* its error is what the call returns.  A throttled round trip is followed by
\* a sleep and an invocation with the same request, or it is the last one
\* and the call returns the error of the backoff giving up.
C2_RetryOnlyOnThrottle ==
  \A k \in 1..Len(reqlog) :
    LET e == reqlog[k]
    IN /\ (e.what = "call" /\ e.outcome \in ErrOutcomes \ { Throttled }) =>
            /\ k = Len(reqlog)
            /\ pc \in { "after", "fetched" }
            /\ rerr = e.outcome
            /\ (k = 1 \/ IsOkCall(reqlog[k - 1])) => attempts = 1
            /\ pc = "fetched" => fetched = [items |-> <<>>, err |-> Failed(fn)]
       /\ (e.what = "call" /\ e.outcome = Throttled) =>
            IF k = Len(reqlog)
            THEN /\ pc \in { "backoff", "after", "fetched" }
                 /\ pc = "fetched" => fetched = [items |-> <<>>, err |-> FailedAfter(fn)]
            ELSE /\ reqlog[k + 1].what = "sleep"
                 /\ k + 2 <= Len(reqlog) =>
                      /\ reqlog[k + 2].what = "call"
                      /\ reqlog[k + 2].start = e.start
       /\ e.what = "sleep" =>
            /\ k > 1
            /\ reqlog[k - 1].what = "call"
            /\ reqlog[k - 1].outcome = Throttled

\* C2 witness: a page was throttled and retried, a later page failed with
\* another service error on its first invocation, and the call returned it.
C2_Witness ==
  /\ pc = "fetched"
  /\ fetched.err = Failed(fn)
  /\ Len(reqlog) >= 4
  /\ reqlog[1].outcome = Throttled
  /\ IsOkCall(reqlog[3])
  /\ reqlog[Len(reqlog)].outcome = "ResourceNotFoundException"
  /\ attempts = 1

\* A retrieval call that returned an error.
CallFailed(c) == c.err \notin { Nil, "pending" }

\* C3: when a page request fails, the retrieval call returns no records (even
\* after pages that succeeded), no row is rendered, no delete is issued, and
\* the invocation ends with that error.
C3_FailedRetrievalAborts ==
  /\ (pc = "fetched" /\ fetched.err # Nil) => fetched.items = <<>>
  /\ \A k \in 1..Len(calls) :
       CallFailed(calls[k]) =>
         /\ calls[k].got = <<>>
         /\ shown = <<>>
         /\ dellog = <<>>
         /\ pc = "done" => result = calls[k].err

\* The records of the given retrieval calls, call after call.
RECURSIVE ConcatGot(_)
ConcatGot(cs) == IF cs = <<>> THEN <<>> ELSE Head(cs).got \o ConcatGot(Tail(cs))

\* C4: a retrieval of the multi-key run with --limit L, 0 < L <= the number of
\* records the request selects, returns exactly the first L of them in
\* service order, and the page that brought the L-th record is the last one
\* requested, continuation token or not.
C4_LimitReturnsFirstL ==
  (/\ pc = "fetched"
   /\ ~legacy
   /\ limit > 0
   /\ fetched.err = Nil
   /\ limit <= Len(Selected(input))) =>
     LET ok == OkCalls(reqlog)
     IN /\ fetched.items = Take(Selected(input), limit)
        /\ Len(ConcatPages(ok)) >= limit
        /\ Len(ConcatPages(Take(ok, Len(ok) - 1))) < limit

\* C4 witness: with limit 1 and pages of two records the call returned one
\* record after one page, although the page carried a continuation token.
C4_Witness ==
  /\ pc = "fetched"
  /\ ~legacy
  /\ limit = 1
  /\ fetched.err = Nil
  /\ Len(fetched.items) = 1
  /\ Len(OkCalls(reqlog)) = 1
  /\ Len(OkCalls(reqlog)[1].page.Items) = 2
  /\ OkCalls(reqlog)[1].page.LastEvaluatedKey # NoKey

\* The two sides of an "attr:value" key specification.
SpecAttr(kv) == SubSeq(kv, 1, IndexOf(kv, Colon))
SpecValue(kv) == SubSeq(kv, IndexOf(kv, Colon) + 2, Len(kv))

\* C5: with K primary-key specs and S < K sort-key specs, the k-th retrieval
\* call is a query on primary-key spec k, with a begins_with condition from
\* sort-key spec k when k <= S and with no sort-key condition when k > S; the
\* records of the calls are concatenated in the order of the calls.
C5_SortSpecsPairByPosition ==
  (~legacy /\ Len(sk) < Len(pk)) =>
    /\ Len(calls) <= Len(pk)
    /\ \A k \in 1..Len(calls) :
         /\ calls[k].fn = "GetItems"
         /\ calls[k].pk = pk[k]
         /\ calls[k].cond.pkattr = SpecAttr(pk[k])
         /\ calls[k].cond.pkval = SpecValue(pk[k])
         /\ k <= Len(sk) =>
              /\ calls[k].sk = sk[k]
              /\ calls[k].cond.hasSk
              /\ calls[k].cond.skattr = SpecAttr(sk[k])
              /\ calls[k].cond.skval = SpecValue(sk[k])
         /\ k > Len(sk) =>
              /\ calls[k].sk = <<>>
              /\ ~calls[k].cond.hasSk
    /\ pc \in { "retrieve", "project" } => items = ConcatGot(calls)
    /\ pc = "project" => Len(calls) = Len(pk)

\* C5 witness: three primary-key specs and one sort-key spec, all three
\* calls returned records and the column step is about to start.
C5_Witness ==
  /\ ~legacy
  /\ pc = "project"
  /\ Len(pk) = 3
  /\ Len(sk) = 1
  /\ Len(calls) = 3
  /\ \A k \in 1..3 : calls[k].got # <<>>
  /\ Len(calls[1].got) < Len(calls[3].got)

\* C6: the delete phase never issues two deletes for the same sort-key value.
C6_OneDeletePerSortKey ==
  \A a, b \in 1..Len(dellog) : a # b => dellog[a].sk # dellog[b].sk

\* C6 witness: two rendered records of different partitions share their
\* sort-key value, and the delete phase has run to its end.
C6_Witness ==
  /\ pc = "done"
  /\ del
  /\ result = Nil
  /\ Len(dellog) >= 2
  /\ \E a, b \in Range(shown) :
       /\ a # b
       /\ sklbl \in DOMAIN m[a + 1]
       /\ sklbl \in DOMAIN m[b + 1]
       /\ m[a + 1][sklbl] = m[b + 1][sklbl]
       /\ m[a + 1][pklbl] # m[b + 1][pklbl]

\* Whether the row loop has been entered.
InRowLoop == ~legacy /\ (pc \in { "rows", "delete" } \/ (pc = "done" /\ hdrs # <<>>))

\* C7: a record for which the row transformer yields include = false is
\* skipped entirely: the rows of the table and of the delimited export are
\* exactly those of the records that were included, every entry of the
\* deletion map and every delete comes from an included record.
C7_ExcludedRowsSkipped ==
  InRowLoop =>
    /\ \A q \in 0..(r - 1) : RenderRow(m[q + 1]).include <=> q \in Range(shown)
    /\ Len(tableRows) = Len(shown)
    /\ \A j \in 1..Len(shown) : tableRows[j] = RenderRow(m[shown[j] + 1]).rows
    /\ IF csvf = "" THEN cwRows = <<>>
       ELSE /\ Len(cwRows) = 1 + Len(shown)
            /\ \A j \in 1..Len(shown) : cwRows[j + 1] = RenderRow(m[shown[j] + 1]).qrows
    /\ \A e \in 1..Len(todel) :
         \E q \in Range(shown) :
            /\ RenderRow(m[q + 1]).include
            /\ sklbl \in DOMAIN m[q + 1]
            /\ todel[e].key = m[q + 1][sklbl]
            /\ todel[e].val = m[q + 1][pklbl]
    /\ \A d \in 1..Len(dellog) :
         \E q \in Range(shown) :
            /\ RenderRow(m[q + 1]).include
            /\ sklbl \in DOMAIN m[q + 1]
            /\ dellog[d].sk = sklbl \o Colon \o m[q + 1][sklbl]
            /\ dellog[d].pk = pklbl \o Colon \o m[q + 1][pklbl]

\* C7 witness: with deletion and export requested, the filters excluded one
\* record and included another, and the delete phase has run.
C7_Witness ==
  /\ InRowLoop
  /\ pc = "done"
  /\ del
  /\ csvf # ""
  /\ contains # <<>>
  /\ dellog # <<>>
  /\ Len(shown) >= 1
  /\ Len(shown) < Len(m)
  /\ \E q \in 0..(Len(m) - 1) :
       /\ ~RenderRow(m[q + 1]).include
       /\ sklbl \in DOMAIN m[q + 1]

\* C8: every entry of the deletion map gets exactly one delete call, whatever
\* the earlier calls returned; each call is reported for its own key, as a
\* failure or as a success according to what it returned; and the invocation
\* returns nil.
C8_DeleteFailuresTolerated ==
  /\ \A d \in 1..Len(dellog) :
       /\ \E e \in 1..Len(todel) :
            /\ dellog[d].pk = pklbl \o Colon \o todel[e].val
            /\ dellog[d].sk = sklbl \o Colon \o todel[e].key
            /\ dellog[d].log = << IF dellog[d].err = Nil THEN "deleted" ELSE "delete failed",
                                  todel[e].val, todel[e].key >>
       /\ result \in { "running", Nil }
  /\ (pc = "delete" /\ pending = {}) => Len(dellog) = (IF del THEN Len(todel) ELSE 0)
  /\ (pc = "done" /\ InRowLoop /\ del /\ result # "panic") =>
       /\ result = Nil
       /\ Len(dellog) = Len(todel)
       /\ \A e \in 1..Len(todel) :
            Cardinality({ d \in 1..Len(dellog) :
                            dellog[d].sk = sklbl \o Colon \o todel[e].key }) = 1

\* C8 witness: three deletes were issued, the first and the last failed, the
\* second succeeded, and run returned nil.
C8_Witness ==
  /\ pc = "done"
  /\ result = Nil
  /\ Len(todel) = 3
  /\ Len(dellog) = 3
  /\ dellog[1].err # Nil
  /\ dellog[2].err = Nil
  /\ dellog[3].err # Nil

\* Whether the column schema has been computed.
Projected == pc \in { "rows", "delete" } \/ (pc = "done" /\ result \in { Nil, "panic" })

Count(seq, x) == Cardinality({ k \in 1..Len(seq) : seq[k] = x })

\* C9 as stated: with a non-empty explicit column list the column schema is
\* that list in the order given, whatever the sort-suppression flag.
C9_ExplicitColumnsKeepOrder ==
  (Projected /\ Len(incols) > 0) => sortedlbl = incols

\* C9 as amended: with a non-empty explicit column list the column schema
\* holds exactly the listed columns (never the derived union): in the order
\* given when the sort-suppression flag is set, in ascending order when it is
\* not.
C9_ExplicitColumnsSortedUnlessNosort ==
  (Projected /\ Len(incols) > 0) =>
    /\ Len(sortedlbl) = Len(incols)
    /\ \A x \in Range(incols) \cup Range(sortedlbl) : Count(sortedlbl, x) = Count(incols, x)
    /\ nosort => sortedlbl = incols
    /\ ~nosort => \A k \in 1..(Len(sortedlbl) - 1) : ~StrLess(sortedlbl[k + 1], sortedlbl[k])

\* C9 witness: the explicit list "v,id" without the sort-suppression flag,
\* where the records also have an attribute the list leaves out.
C9_Witness ==
  /\ Projected
  /\ ~legacy
  /\ incols = << AttrV, AttrId >>
  /\ ~nosort
  /\ sortedlbl = << AttrId, AttrV >>
  /\ AttrSk \in Labels(m)

\* The column index a rule targets.
RuleColumn(fltr) == Atoi(Split(fltr, Colon)[1])

\* Whether the rule vetoes the record: the cell of its column is there and
\* fails the rule.
Vetoes(fltr, maps) ==
  LET cc == Split(fltr, Colon)
      ci == RuleColumn(fltr)
  IN /\ ci \in 0..(Len(sortedlbl) - 1)
     /\ sortedlbl[ci + 1] \in DOMAIN maps
     /\ LET cell == maps[sortedlbl[ci + 1]]
        IN \/ /\ Len(cc) = 2
              /\ cc[2] # <<>>
              /\ IF Head(cc[2]) = "^" THEN Contains(cell, Tail(cc[2]))
                 ELSE ~Contains(cell, cc[2])
           \/ /\ Len(cc) = 3
              /\ RegexCompiles(cc[3])
              /\ \/ cc[2] = Regex /\ ~RegexMatch(cc[3], cell)
                 \/ cc[2] = NotRegex /\ RegexMatch(cc[3], cell)

\* C10: a record that some rule vetoes is not included, also when a rule on
\* another column, evaluated later, matches (the rules here target pairwise
\* different columns).
C10_VetoIsFinal ==
  (/\ InRowLoop
   /\ \A a, b \in 1..Len(contains) :
        a # b => RuleColumn(contains[a]) # RuleColumn(contains[b])) =>
    \A q \in 0..(r - 1) :
      (\E f \in 1..Len(contains) : Vetoes(contains[f], m[q + 1])) => q \notin Range(shown)

\* The transformed cell of column c (from 1) of a record: its attribute after
\* the base64 rules of that column, "-" when the record lacks the attribute.
Transformed(maps, c) ==
  IF sortedlbl[c] \in DOMAIN maps
  THEN ApplyB64s([row |-> maps[sortedlbl[c]], panic |-> FALSE], b64dec, c - 1).row
  ELSE Dash

\* C11: every display cell appended to the rendered table is the transformed
\* cell truncated to maxlen, so it has at most maxlen characters; every cell
\* written to the delimited export is truncated the same way, with its quote
\* characters replaced.
C11_CellsTruncatedToMaxLen ==
  InRowLoop =>
    \A j \in 1..Len(shown) : \A c \in 1..Len(sortedlbl) :
      LET cell == Transformed(m[shown[j] + 1], c)
      IN /\ Len(tableRows[j][c]) <= maxlen
         /\ tableRows[j][c] = Truncate(cell, maxlen)
         /\ csvf # "" => cwRows[j + 1][c] = Unquote(Truncate(cell, maxlen))

Foo == << "f", "o", "o" >>

\* C12: with the single rule "0:^foo" the rows rendered are exactly those of
\* the records whose column-0 cell does not contain "foo", with the single
\* rule "0:foo" exactly those whose column-0 cell contains "foo"; a record
\* without the column-0 attribute counts with its cell "-".
C12_SubstringRuleOnColumn0 ==
  (InRowLoop /\ Len(sortedlbl) > 0) =>
    \A q \in 0..(r - 1) :
      LET cell == Transformed(m[q + 1], 1)
      IN /\ contains = << NotFoo >> => (q \in Range(shown) <=> ~Contains(cell, Foo))
         /\ contains = << HasFoo >> => (q \in Range(shown) <=> Contains(cell, Foo))

\* C13: base64 rules and filter rules never abort the invocation: once the
\* records are retrieved, run never ends abnormally, and when it ends the row
\* loop has visited every record.
C13_RulesNeverAbort ==
  /\ result # "panic"
  /\ (InRowLoop /\ pc \in { "delete", "done" }) => r = Len(m)

\* The attribute the table's metadata gives for a key type, "" when none.
KeyAttr(type) ==
  IF \E e \in 1..Len(KeySchema) : KeySchema[e].KeyType = type
  THEN KeySchema[CHOOSE e \in 1..Len(KeySchema) : KeySchema[e].KeyType = type].AttributeName
  ELSE <<>>

\* C14: every delete call targets the key of one rendered record that passed
\* the filters: its primary-key and sort-key arguments are the values that
\* record has for the HASH and the RANGE attribute of the table's metadata.
C14_DeleteKeysFromOneIncludedRecord ==
  \A d \in 1..Len(dellog) :
    \E j \in 1..Len(shown) :
      LET maps == m[shown[j] + 1]
      IN /\ RenderRow(maps).include
         /\ KeyAttr("HASH") \in DOMAIN maps
         /\ KeyAttr("RANGE") \in DOMAIN maps
         /\ dellog[d].pk = KeyAttr("HASH") \o Colon \o maps[KeyAttr("HASH")]
         /\ dellog[d].sk = KeyAttr("RANGE") \o Colon \o maps[KeyAttr("RANGE")]

\* The delete calls made for the key of a record: its value of the HASH
\* attribute and, when the table has a RANGE attribute, its value of that.
DeletesOf(maps) ==
  { d \in 1..Len(dellog) :
      /\ dellog[d].pk = KeyAttr("HASH") \o Colon \o maps[KeyAttr("HASH")]
      /\ hasRange => dellog[d].sk = KeyAttr("RANGE") \o Colon \o maps[KeyAttr("RANGE")] }

\* C15: when deletion is requested and run has returned, every rendered row
\* has had its own key recorded and exactly one delete issued for it, also
\* when rendered rows of different primary keys share their sort-key value
\* and when the table has no sort key.
C15_EverySurvivingRowDeleted ==
  (pc = "done" /\ InRowLoop /\ del /\ result = Nil) =>
    \A j \in 1..Len(shown) :
      LET maps == m[shown[j] + 1]
      IN /\ Cardinality(DeletesOf(maps)) = 1
         /\ hasRange => \E e \in 1..Len(todel) :
              todel[e] = [key |-> maps[KeyAttr("RANGE")], val |-> maps[KeyAttr("HASH")]]

====
